---- MODULE Spec2Model ----
(***************************************************************************)
(* A model of trojsten/judge-client:                                       *)
(*   - JudgeClientIterator (util.py), the paginated result iterator that    *)
(*     JudgeClient.get_submits / get_tasks return (client.py);              *)
(*   - JudgeClient._handle_exception and _get/_post/_delete (client.py),    *)
(*     the mapping of HTTP responses to exceptions;                         *)
(*   - JudgeClient.set_task_languages (client.py), the reconciliation of    *)
(*     the task languages stored on the server with a desired list.         *)
(* The remote judge is the environment: a result set served in pages, a     *)
(* table of task languages, and HTTP responses.                             *)
(***************************************************************************)
EXTENDS Integers, Sequences, FiniteSets, TLC

VARIABLES
    \* ---- the judge's list endpoint (environment of the iterator)
    srvItems,        \* the result set of the list endpoint, in server order
    \* ---- JudgeClientIterator
    endpoint,        \* "" before get_submits/get_tasks is called, then the path
    batch_size,      \* the limit parameter captured by fetch_data
    start,           \* the offset argument the iterator was built with
    it_offset,       \* self.__offset
    it_data_offset,  \* self.__data_offset
    it_count,        \* self.__count
    it_data,         \* self.__data
    lastOp,          \* the last method called on the iterator
    result,          \* what that call did: a value, a row, or the exception
    lenValue,        \* the value the last __len__ returned (-1: never called)
    firstCount,      \* the count the iterator learned first (-1: none yet)
    yielded,         \* the rows __next__ has returned, in order
    fetched,         \* the offsets fetch_data was called with, in order
    nCalls,          \* number of method calls made on the iterator
    stops,           \* number of advances that raised StopIteration
    \* ---- one HTTP exchange through _get/_post/_delete
    http_pc,         \* "idle" | "sent" | "returned" | "raised"
    http_req,        \* [method, url]
    http_resp,       \* the response received, or NoResponse
    http_exc,        \* the exception the caller receives, or NoException
    \* ---- set_task_languages
    srvLangs,        \* the task languages stored on the server: id -> value
    srvLangs0,       \* srvLangs when set_task_languages was called
    task_languages,  \* the desired list (the argument)
    current_languages, \* the list get_task_languages returned
    lang_pc,         \* "idle" | "get" | "put" | "del" | "done" | "failed"
    lang_i,          \* index into task_languages / current_languages
    lang_calls,      \* the calls issued, in order: [op, id, val, exc]
    lang_exc,        \* the exception that ended the call, or NoException
    lang_round,      \* how many calls of set_task_languages were begun
    \* ---- one client operation that returns a Submit or a Task
    ent,             \* the operation, its response, what it returned or raised
    \* ---- enum decoding (types.py)
    dec,             \* the raw value given to Verdict / TestingStatus, the outcome
    \* ---- two iterators over the same listing, one asked for its size first
    twin,            \* their fields, what they yielded, their last outcomes
    \* ---- DeployAction.process_task for one task
    dep,             \* where it stands, the client calls it made, how it ended
    \* ---- two clients calling set_task_languages on the same task
    duo,             \* the shared table, each client's position and listing
    \* ---- CleanupAction.run
    cln              \* the tasks on the server, the listing, the deletes issued

itVars   == <<endpoint, batch_size, start, it_offset, it_data_offset, it_count,
              it_data, lastOp, result, lenValue, firstCount, yielded, fetched,
              nCalls, stops>>
httpVars == <<http_pc, http_req, http_resp, http_exc>>
langVars == <<srvLangs, srvLangs0, task_languages, current_languages, lang_pc,
              lang_i, lang_calls, lang_exc, lang_round>>
extVars  == <<ent, dec, twin>>
actVars  == <<dep, duo, cln>>
vars     == <<srvItems, itVars, httpVars, langVars, extVars, actVars>>

\* ------------------------------------------------------------------ bounds
MaxN == 3          \* largest result set of the list endpoint
MaxP == 2          \* largest page size (batch_size)
MaxCalls == 6      \* method calls made on one iterator
MaxDesired == 3    \* longest desired list given to set_task_languages

Min(a, b) == IF a < b THEN a ELSE b
Max(a, b) == IF a < b THEN b ELSE a
CeilDiv(a, b) == (a + b - 1) \div b
Range(s) == {s[k] : k \in DOMAIN s}

\* ---------------------------------------------------------- list endpoint
\* The result set the server holds when it has n rows: distinct ids, newest
\* first, so that a row's value differs from its position.
Items(n) == [k \in 1..n |-> 100 + n - k]

\* fetch_data(offset): one GET with limit = batch_size and offset; the
\* response carries the total count and the page of items from that offset.
FetchData(offset) ==
    [count |-> Len(srvItems),
     items |-> SubSeq(srvItems, offset + 1, Min(offset + batch_size, Len(srvItems)))]

\* ------------------------------------------------------ JudgeClientIterator
NoResult == [kind |-> "none", value |-> 0]

\* A constructor that fetches the first page at once.
IteratorInitEager(offset) ==
    [offset |-> offset, data_offset |-> 0, count |-> Len(srvItems),
     data |-> SubSeq(srvItems, offset + 1, Len(srvItems)), fetched |-> <<offset>>]

\* __init__: the fields after construction, and the fetches made by it.
IteratorInit(offset) ==
    [offset |-> offset, data_offset |-> 0, count |-> -1, data |-> <<>>,
     fetched |-> <<>>]

\* A size query that asks the server every time.
LenAlwaysFetches(count) == TRUE

\* __len__, line 25: the count is fetched only while it is unknown.
LenNeedsFetch(count) == count = -1

\* __next__, line 30: the end-of-iteration test.
ReachedEnd(offset, count) == offset >= count /\ count # -1

\* No page is kept: every advance fetches.
PageExhaustedAlways(data_offset, data) == TRUE

\* A page test that refills one row early.
PageExhaustedEarly(data_offset, data) == data_offset + 1 >= Len(data)

\* __next__, line 33: the current page is used up.
PageExhausted(data_offset, data) == data_offset >= Len(data)

\* A count that is kept once it is known.
CountKept(old, got) == IF old = -1 THEN got ELSE old

\* __next__, line 34: the count kept after a page fetch that reported `got`.
CountAfterFetch(old, got) == got

\* The first count the iterator learned (a history variable).
Learn(count) == IF firstCount = -1 /\ count # -1 THEN count ELSE firstCount

\* JudgeClient.get_submits / get_tasks: build the iterator over fetch_data.
Construct(path) ==
    /\ endpoint = ""
    /\ endpoint' = path
    /\ \E p \in 1..MaxP, o \in 0..(MaxN + 1) :
          LET it == IteratorInit(o) IN
          /\ batch_size' = p
          /\ start' = o
          /\ it_offset' = it.offset
          /\ it_data_offset' = it.data_offset
          /\ it_count' = it.count
          /\ it_data' = it.data
          /\ fetched' = it.fetched
          /\ firstCount' = Learn(it.count)
    /\ UNCHANGED <<srvItems, lastOp, result, lenValue, yielded, nCalls, stops,
                   httpVars, langVars, extVars, actVars>>

GetSubmits == Construct("/api/submits/")

GetTasks == Construct("/api/tasks/")

\* __iter__: returns self.
IterCall ==
    /\ endpoint # ""
    /\ nCalls < MaxCalls
    /\ nCalls' = nCalls + 1
    /\ lastOp' = "iter"
    /\ result' = [kind |-> "self", value |-> 0]
    /\ UNCHANGED <<srvItems, endpoint, batch_size, start, it_offset,
                   it_data_offset, it_count, it_data, lenValue, firstCount,
                   yielded, fetched, stops, httpVars, langVars, extVars, actVars>>

\* __len__
LenCall ==
    /\ endpoint # ""
    /\ nCalls < MaxCalls
    /\ nCalls' = nCalls + 1
    /\ lastOp' = "len"
    /\ IF LenNeedsFetch(it_count)
         THEN LET f == FetchData(it_offset) IN
              /\ it_count' = f.count
              /\ it_data' = f.items
              /\ fetched' = Append(fetched, it_offset)
         ELSE UNCHANGED <<it_count, it_data, fetched>>
    /\ result' = [kind |-> "int", value |-> it_count']
    /\ lenValue' = it_count'
    /\ firstCount' = Learn(it_count')
    /\ UNCHANGED <<srvItems, endpoint, batch_size, start, it_offset,
                   it_data_offset, yielded, stops, httpVars, langVars, extVars, actVars>>

\* __next__
NextCall ==
    /\ endpoint # ""
    /\ nCalls < MaxCalls
    /\ nCalls' = nCalls + 1
    /\ lastOp' = "next"
    /\ IF ReachedEnd(it_offset, it_count)
         THEN /\ result' = [kind |-> "StopIteration", value |-> 0]
              /\ stops' = stops + 1
              /\ UNCHANGED <<it_offset, it_data_offset, it_count, it_data,
                             yielded, fetched, firstCount>>
         ELSE LET refill == PageExhausted(it_data_offset, it_data)
                  f      == FetchData(it_offset)
                  count1 == IF refill THEN CountAfterFetch(it_count, f.count)
                                      ELSE it_count
                  data1  == IF refill THEN f.items ELSE it_data
                  doff1  == IF refill THEN 0 ELSE it_data_offset
              IN
              /\ it_count' = count1
              /\ it_data' = data1
              /\ fetched' = IF refill THEN Append(fetched, it_offset) ELSE fetched
              /\ firstCount' = Learn(count1)
              /\ UNCHANGED stops
              /\ IF doff1 < Len(data1)
                   THEN \* row = self.__data[self.__data_offset]
                        /\ result' = [kind |-> "row", value |-> data1[doff1 + 1]]
                        /\ yielded' = Append(yielded, data1[doff1 + 1])
                        /\ it_offset' = it_offset + 1
                        /\ it_data_offset' = doff1 + 1
                   ELSE \* the subscript is out of range
                        /\ result' = [kind |-> "IndexError", value |-> 0]
                        /\ it_data_offset' = doff1
                        /\ UNCHANGED <<it_offset, yielded>>
    /\ UNCHANGED <<srvItems, endpoint, batch_size, start, lenValue,
                   httpVars, langVars, extVars, actVars>>

\* The result set changes on the server between two requests: a new row
\* comes in at the front or the first row goes away.
ServerResize ==
    /\ endpoint # ""
    /\ \/ Len(srvItems) < MaxN /\ srvItems' = Items(Len(srvItems) + 1)
       \/ Len(srvItems) > 0 /\ srvItems' = Items(Len(srvItems) - 1)
    /\ UNCHANGED <<itVars, httpVars, langVars, extVars, actVars>>

\* ------------------------------------------------------------ HTTP exchange
judge_url == "https://judge.ksp.sk"

Methods == {"GET", "POST", "DELETE"}

Urls == {"/api/submits/", "/api/tasks/ns/t/", "/api/tasks/ns/t/languages/"}

Statuses == {200, 204, 304, 400, 404, 422, 500}

\* The detail strings a response body may carry: the two of the table and
\* strings that differ from them in case, by a suffix or wholly.
DetailStrings ==
    {"Not Found", "filename: Could not detect language.", "not found",
     "Not Found.", "NOT FOUND", "Could not detect language.", "Forbidden", ""}

\* A response body: not JSON, JSON without a "detail" member, JSON whose
\* "detail" is a string, JSON whose "detail" is a list (unhashable).
Bodies ==
    {[kind |-> "not_json", detail |-> ""], [kind |-> "no_detail", detail |-> ""],
     [kind |-> "detail_list", detail |-> ""]}
    \cup {[kind |-> "detail_str", detail |-> d] : d \in DetailStrings}

Responses == [status : Statuses, body : Bodies]

NoResponse == [status |-> 0, body |-> [kind |-> "none", detail |-> ""]]

NoException == [type |-> "none", detail |-> <<>>]

\* requests.Response.raise_for_status, called at line 51: HTTPError for a
\* 4xx or 5xx status.
RaisesForStatus(status) == 400 <= status /\ status < 600

\* A lookup that ignores letter case.
KnownExceptionAnyCase(detail) ==
    IF detail = <<"filename: Could not detect language.">> THEN "UnknownLanguageError"
    ELSE IF detail \in {<<"Not Found">>, <<"not found">>, <<"NOT FOUND">>}
      THEN "NotFoundError"
    ELSE "JudgeConnectionError"

\* The table without its "Not Found" entry.
KnownExceptionLanguageOnly(detail) ==
    IF detail = <<"filename: Could not detect language.">> THEN "UnknownLanguageError"
    ELSE "JudgeConnectionError"

\* _known_exceptions.get(detail, JudgeConnectionError), lines 44-47 and 61.
KnownException(detail) ==
    IF detail = <<"filename: Could not detect language.">> THEN "UnknownLanguageError"
    ELSE IF detail = <<"Not Found">> THEN "NotFoundError"
    ELSE "JudgeConnectionError"

\* A fallback message that does not name the request.
GenericDetailNoPath(url) == <<"Failed to connect to judge system">>

\* line 53: f"Failed to connect to judge system ({self.judge_url}{url})".
GenericDetail(url) == <<"Failed to connect to judge system (", judge_url, url, ")">>

\* _handle_exception(url, response): the exception raised, or NoException.
\* An exception is its class and the argument it is constructed with
\* (line 63); a detail is the sequence of the string's parts (the f-string
\* of line 53 has four).
HandleException(url, response) ==
    IF ~RaisesForStatus(response.status) THEN NoException
    ELSE LET detail == IF response.body.kind = "detail_str"
                         THEN <<response.body.detail>>
                         ELSE GenericDetail(url)
         IN  IF response.body.kind = "detail_list"
               THEN \* the dict lookup of line 61 hashes the list
                    [type |-> "TypeError", detail |-> <<"unhashable type">>]
               ELSE [type |-> KnownException(detail), detail |-> detail]

\* What the transport raises when no response is obtained; session.get /
\* post / delete is called outside any try block (lines 66, 73, 80).
TransportError == [type |-> "requests.RequestException", detail |-> <<>>]

\* _get / _post / _delete: one exchange.  Either the transport fails, or a
\* response arrives and goes through _handle_exception.
Exchange(method) ==
    /\ http_pc = "idle"
    /\ \E url \in Urls :
         /\ http_req' = [method |-> method, url |-> url]
         /\ \/ /\ http_resp' = NoResponse
               /\ http_exc' = TransportError
               /\ http_pc' = "raised"
            \/ \E r \in Responses :
                  LET e == HandleException(url, r) IN
                  /\ http_resp' = r
                  /\ http_exc' = e
                  /\ http_pc' = IF e = NoException THEN "returned" ELSE "raised"
    /\ UNCHANGED <<srvItems, itVars, langVars, extVars, actVars>>

Get == Exchange("GET")

Post == Exchange("POST")

Delete == Exchange("DELETE")

\* ------------------------------------------------------- task languages
LangIds == {"cpp", "py", "pas"}

\* The settings of a task language other than its language_id.
LangVals == {"v1", "v2"}

TaskLanguage == [language_id : LangIds, val : LangVals]

NoLang == "absent"

\* The server's table of one task: language_id -> settings, or NoLang.
LangTables == [LangIds -> LangVals \cup {NoLang}]

StoredIds(table) == {l \in LangIds : table[l] # NoLang}

\* The order in which the server lists the languages it stores.
LangOrder == <<"cpp", "pas", "py">>

RECURSIVE Listing(_, _)
Listing(table, k) ==
    IF k > Len(LangOrder) THEN <<>>
    ELSE (IF table[LangOrder[k]] # NoLang
            THEN <<[language_id |-> LangOrder[k], val |-> table[LangOrder[k]]]>>
            ELSE <<>>) \o Listing(table, k + 1)

\* get_task_languages: the decoded response.
GetTaskLanguages(table) == Listing(table, 1)

DesiredLists == UNION {[1..n -> TaskLanguage] : n \in 0..MaxDesired}

\* lines 561 and 569: the set comprehensions over language_id.
IdsOf(list) == {list[k].language_id : k \in DOMAIN list}

\* Every desired language is added, stored or not.
PutOpAlwaysAdd(lang, current_language_ids) == "add"

\* The test of line 564 inverted.
PutOpInverted(lang, current_language_ids) ==
    IF lang.language_id \in current_language_ids THEN "add" ELSE "update"

\* lines 564-567: the call issued for one desired language.
PutOp(lang, current_language_ids) ==
    IF lang.language_id \notin current_language_ids THEN "add" ELSE "update"

\* Every current language is deleted, desired or not.
DeleteNeededAlways(lang, new_language_ids) == TRUE

\* The test of line 572 guarded by the truth value of the desired ids: an
\* empty desired list deletes nothing.
DeleteNeededUnlessEmpty(lang, new_language_ids) ==
    new_language_ids # {} /\ lang.language_id \notin new_language_ids

\* line 572: whether a current language is deleted.
DeleteNeeded(lang, new_language_ids) == lang.language_id \notin new_language_ids

\* An exception that is swallowed: the loop goes on with the same call.
AfterFailureRetry(pc) == pc

\* An exception raised by a call is not caught anywhere in lines 559-573:
\* it ends set_task_languages.
AfterFailure(pc) == "failed"

\* The first index >= k of current_languages whose language is to be
\* deleted, or 0 when the second loop has nothing more to do.
RECURSIVE NextDelete(_, _, _)
NextDelete(current, new_ids, k) ==
    IF k > Len(current) THEN 0
    ELSE IF DeleteNeeded(current[k], new_ids) THEN k
    ELSE NextDelete(current, new_ids, k + 1)

\* The outcomes of one HTTP call made by a task-language operation: the
\* response is a success the client decodes, a success whose body it cannot
\* decode, an error response, or none at all.
ErrorResponses ==
    {[status |-> 404, body |-> [kind |-> "detail_str", detail |-> "Not Found"]],
     [status |-> 500, body |-> [kind |-> "not_json", detail |-> ""]]}

DecodeError == [type |-> "TypeError", detail |-> <<"decode">>]

\* The server applies a request it answers with success; it does not apply
\* one it answers with an error; a request whose response is lost may or
\* may not have been applied.
Outcomes(op) ==
    {[exc |-> NoException, applied |-> TRUE]}
    \cup {[exc |-> HandleException("/api/tasks/ns/t/languages/", r), applied |-> FALSE]
            : r \in ErrorResponses}
    \cup {[exc |-> TransportError, applied |-> a] : a \in BOOLEAN}
    \cup (IF op = "delete" THEN {} ELSE {[exc |-> DecodeError, applied |-> TRUE]})

\* The server's table after a request it applied.
Apply(table, op, id, val) ==
    CASE op = "add"    -> [table EXCEPT ![id] = val]
      [] op = "update" -> [table EXCEPT ![id] = val]
      [] op = "delete" -> [table EXCEPT ![id] = NoLang]
      [] OTHER         -> table

\* set_task_languages is called.
SetTaskLanguages ==
    /\ lang_pc = "idle"
    /\ \E d \in DesiredLists : task_languages' = d
    /\ srvLangs0' = srvLangs
    /\ lang_pc' = "get"
    /\ lang_round' = 1
    /\ UNCHANGED <<srvItems, itVars, httpVars, extVars, actVars, srvLangs, current_languages,
                   lang_i, lang_calls, lang_exc>>

\* The caller repeats a call that returned, with the same desired list.
SetTaskLanguagesAgain ==
    /\ lang_pc = "done"
    /\ lang_round = 1
    /\ lang_round' = 2
    /\ srvLangs0' = srvLangs
    /\ lang_pc' = "get"
    /\ current_languages' = <<>>
    /\ lang_i' = 0
    /\ lang_calls' = <<>>
    /\ UNCHANGED <<srvItems, itVars, httpVars, extVars, actVars, srvLangs, task_languages,
                   lang_exc>>

\* The two loops in the other order: the deletes first, then the desired
\* list.
PositionDeletesFirst(pc, i, desired, current) ==
    LET k == NextDelete(current, IdsOf(desired), IF pc = "del" THEN i ELSE 1)
    IN  IF pc = "put" /\ i = 1 /\ k # 0 THEN [pc |-> "del", i |-> k]
        ELSE IF pc = "del" /\ k # 0 THEN [pc |-> "del", i |-> k]
        ELSE IF pc = "del" /\ Len(desired) >= 1 THEN [pc |-> "put", i |-> 1]
        ELSE IF pc = "put" /\ i <= Len(desired) THEN [pc |-> "put", i |-> i]
        ELSE [pc |-> "done", i |-> 0]

\* Where the call stands with the first loop at index i (pc = "put") or the
\* second loop at index i (pc = "del"): lines 563, 569-573.  The second
\* loop starts when the first has gone through the whole desired list.
Position(pc, i, desired, current) ==
    IF pc = "put" /\ i <= Len(desired) THEN [pc |-> "put", i |-> i]
    ELSE LET from == IF pc = "put" THEN 1 ELSE i
             k    == NextDelete(current, IdsOf(desired), from)
         IN  IF k = 0 THEN [pc |-> "done", i |-> 0]
             ELSE [pc |-> "del", i |-> k]

\* line 559: current_languages = self.get_task_languages(namespace, task)
GetStep ==
    /\ lang_pc = "get"
    /\ \E o \in Outcomes("get") :
         /\ lang_calls' = Append(lang_calls,
                [op |-> "get", id |-> "", val |-> "", exc |-> o.exc])
         /\ IF o.exc = NoException
              THEN LET cur == GetTaskLanguages(srvLangs)
                       pos == Position("put", 1, task_languages, cur)
                   IN  /\ current_languages' = cur
                       /\ lang_pc' = pos.pc
                       /\ lang_i' = pos.i
                       /\ UNCHANGED lang_exc
              ELSE /\ lang_pc' = AfterFailure(lang_pc)
                   /\ lang_exc' = o.exc
                   /\ UNCHANGED <<current_languages, lang_i>>
    /\ UNCHANGED <<srvItems, itVars, httpVars, extVars, actVars, srvLangs, srvLangs0,
                   task_languages, lang_round>>

\* One call of add_task_language, update_task_language or
\* delete_task_language made by the loops.
CallStep(op, id, val, nextpc, nexti) ==
    \E o \in Outcomes(op) :
       /\ lang_calls' = Append(lang_calls,
              [op |-> op, id |-> id, val |-> val, exc |-> o.exc])
       /\ srvLangs' = IF o.applied THEN Apply(srvLangs, op, id, val) ELSE srvLangs
       /\ IF o.exc = NoException
            THEN LET pos == Position(nextpc, nexti, task_languages, current_languages)
                 IN  /\ lang_pc' = pos.pc
                     /\ lang_i' = pos.i
                     /\ UNCHANGED lang_exc
            ELSE /\ lang_pc' = AfterFailure(lang_pc)
                 /\ lang_exc' = o.exc
                 /\ UNCHANGED lang_i

\* lines 563-567: one pass of the first loop.
PutStep ==
    /\ lang_pc = "put"
    /\ LET lang == task_languages[lang_i] IN
       CallStep(PutOp(lang, IdsOf(current_languages)), lang.language_id, lang.val,
                "put", lang_i + 1)
    /\ UNCHANGED <<srvItems, itVars, httpVars, extVars, actVars, srvLangs0, task_languages,
                   current_languages, lang_round>>

\* lines 571-573: one delete of the second loop.
DelStep ==
    /\ lang_pc = "del"
    /\ LET lang == current_languages[lang_i] IN
       CallStep("delete", lang.language_id, "", "del", lang_i + 1)
    /\ UNCHANGED <<srvItems, itVars, httpVars, extVars, actVars, srvLangs0, task_languages,
                   current_languages, lang_round>>

\* ---------------------------------------------------------- specifications
\* ------------------------------------- two iterators over the same listing
\* The iterator as a value: the fields of IteratorInit, changed by __len__
\* and __next__ as LenCall and NextCall change the variables.

\* __len__ (util.py:24-27) on the iterator `it`.
LenOf(it) ==
    IF LenNeedsFetch(it.count)
      THEN LET f == FetchData(it.offset)
           IN  [it EXCEPT !.count = f.count, !.data = f.items,
                          !.fetched = Append(@, it.offset)]
      ELSE it

\* __next__ (util.py:29-43) on the iterator `it`: the iterator afterwards
\* and what the call returned or raised.
NextOf(it) ==
    IF ReachedEnd(it.offset, it.count)
      THEN [it |-> it, result |-> [kind |-> "StopIteration", value |-> 0]]
      ELSE LET refill == PageExhausted(it.data_offset, it.data)
               f      == FetchData(it.offset)
               count1 == IF refill THEN CountAfterFetch(it.count, f.count)
                                   ELSE it.count
               data1  == IF refill THEN f.items ELSE it.data
               doff1  == IF refill THEN 0 ELSE it.data_offset
               fetch1 == IF refill THEN Append(it.fetched, it.offset)
                                   ELSE it.fetched
           IN  IF doff1 < Len(data1)
                 THEN [it |-> [offset |-> it.offset + 1, data_offset |-> doff1 + 1,
                               count |-> count1, data |-> data1, fetched |-> fetch1],
                       result |-> [kind |-> "row", value |-> data1[doff1 + 1]]]
                 ELSE [it |-> [offset |-> it.offset, data_offset |-> doff1,
                               count |-> count1, data |-> data1, fetched |-> fetch1],
                       result |-> [kind |-> "IndexError", value |-> 0]]

\* A consumer of an iterator: the iterator, the rows it got, the outcome of
\* its last next().
Consumer(it) == [it |-> it, yielded |-> <<>>, result |-> NoResult]

\* The consumer's loop is over: next() raised.
Over(c) == c.result.kind \in {"StopIteration", "IndexError"}

\* One pass of the consumer's loop; a loop that is over stays so.
Consume(c) ==
    IF Over(c) THEN c
    ELSE LET n == NextOf(c.it)
         IN  [it |-> n.it,
              yielded |-> IF n.result.kind = "row"
                            THEN Append(c.yielded, n.result.value) ELSE c.yielded,
              result |-> n.result]

NoTwin == [pc |-> "idle"]

\* get_tasks is called twice with the same arguments; one iterator is
\* handed to list(), which asks its size before it consumes it
\* (cleanup.py:16-20), the other to a for loop, which does not.
TwinConstruct ==
    /\ twin = NoTwin
    /\ \E p \in 1..MaxP, o \in 0..(MaxN + 1) :
          /\ batch_size' = p
          /\ start' = o
          /\ twin' = [pc |-> "built", size |-> -1,
                      sized |-> Consumer(IteratorInit(o)),
                      plain |-> Consumer(IteratorInit(o))]
    /\ UNCHANGED <<srvItems, endpoint, it_offset, it_data_offset, it_count,
                   it_data, lastOp, result, lenValue, firstCount, yielded,
                   fetched, nCalls, stops, httpVars, langVars, actVars, ent, dec>>

\* list() asks the size of its iterator; `size` is what __len__ returns
\* (util.py:27).
TwinLen ==
    /\ twin.pc = "built"
    /\ twin' = [twin EXCEPT !.pc = "run", !.sized.it = LenOf(@),
                            !.size = LenOf(twin.sized.it).count]
    /\ UNCHANGED <<srvItems, itVars, httpVars, langVars, actVars, ent, dec>>

\* Both consumers make one pass of their loops.
TwinNext ==
    /\ twin.pc = "run"
    /\ ~(Over(twin.sized) /\ Over(twin.plain))
    /\ twin' = [twin EXCEPT !.sized = Consume(@), !.plain = Consume(@)]
    /\ UNCHANGED <<srvItems, itVars, httpVars, langVars, actVars, ent, dec>>

\* ------------------------------ operations that return a Submit or a Task
\* The value of a key the body gives as null.
NoKey == "null"

\* A JSON body with the members of a Submit or a Task; `detail` holds its
\* protocol_key (Submit) or public_submit_key (Task), which may be null.
EntityBodies == {[kind |-> "entity", detail |-> k] : k \in {"k7", NoKey}}

EntResponses == [status : Statuses, body : Bodies \cup EntityBodies]

\* Submit(**response.json()) / Task(**response.json()): whether the body
\* decodes.  Submit.protocol_key is a required str (types.py:429),
\* Task.public_submit_key is str | None (types.py:633).
Decodable(cls, body) ==
    body.kind = "entity" /\ (cls = "Submit" => body.detail # NoKey)

\* The decoded entity and its _judge_client: "self" when the operation
\* assigned it, "unset" when nothing did (PrivateAttr() has no default).
Entity(cls, body, client) == [cls |-> cls, key |-> body.detail, client |-> client]

NoEntity == [cls |-> "none", key |-> "", client |-> ""]

\* client.py:147-150 and 173-176: ProtocolCorruptedError(message, protocol)
\* with the raw response text.
ProtocolCorruptedError(text) ==
    [type |-> "ProtocolCorruptedError",
     detail |-> <<"Failed to parse response from the judge system">>,
     protocol |-> text]

\* What response.json() or the model constructor raises where no try
\* block surrounds it.
DecodeFailure(body) ==
    [type |-> IF body.kind = "not_json" THEN "JSONDecodeError" ELSE "ValidationError",
     detail |-> <<>>, protocol |-> body]

Result(exc, entity) == [exc |-> exc, entity |-> entity]

\* The body is decoded before the status is looked at.
SubmitResultDecodeFirst(url, r) ==
    IF ~Decodable("Submit", r.body) THEN Result(ProtocolCorruptedError(r.body), NoEntity)
    ELSE IF HandleException(url, r) # NoException
      THEN Result(HandleException(url, r), NoEntity)
    ELSE Result(NoException, Entity("Submit", r.body, "self"))

\* submit (client.py:129-150) and get_submit (163-176) once the response
\* is there: _post / _get map an error response first; the decoding is
\* inside the try block.
SubmitResult(url, r) ==
    IF HandleException(url, r) # NoException
      THEN Result(HandleException(url, r), NoEntity)
    ELSE IF Decodable("Submit", r.body)
      THEN Result(NoException, Entity("Submit", r.body, "self"))
    ELSE Result(ProtocolCorruptedError(r.body), NoEntity)

\* get_task (335-342), update_task (357-364), create_task (391-398): no
\* try block; ret._judge_client = self.
TaskResult(url, r) ==
    IF HandleException(url, r) # NoException
      THEN Result(HandleException(url, r), NoEntity)
    ELSE IF Decodable("Task", r.body)
      THEN Result(NoException, Entity("Task", r.body, "self"))
    ELSE Result(DecodeFailure(r.body), NoEntity)

\* fetch_data of get_submits (215-228) for a page of one item, the item
\* as the iterator yields it: _convert (util.py:46-47) builds it and
\* assigns nothing.
ItemResult(url, r) ==
    IF HandleException(url, r) # NoException
      THEN Result(HandleException(url, r), NoEntity)
    ELSE IF Decodable("Submit", r.body)
      THEN Result(NoException, Entity("Submit", r.body, "unset"))
    ELSE Result(DecodeFailure(r.body), NoEntity)

\* What reading a property gives: a string (its parts), None, or the
\* exception raised.
Str(parts) == [kind |-> "str", value |-> parts]

NoneValue == [kind |-> "None", value |-> <<>>]

Raised(type) == [kind |-> type, value |-> <<>>]

\* Submit.public_protocol_url (types.py:476-481).  Reading a private
\* attribute that was never assigned raises AttributeError.
PublicProtocolUrl(e) ==
    IF e.client = "unset" THEN Raised("AttributeError")
    ELSE IF e.client = "None" THEN Raised("ValueError")
    ELSE Str(<<judge_url, "/public/protocol/", e.key, "/">>)

\* Task.public_submit_url (types.py:715-723).
PublicSubmitUrl(e) ==
    IF e.client = "unset" THEN Raised("AttributeError")
    ELSE IF e.client = "None" THEN Raised("ValueError")
    ELSE IF e.key = NoKey THEN NoneValue
    ELSE Str(<<judge_url, "/public/submit/", e.key, "/">>)

NoEnt ==
    [pc |-> "idle", name |-> "", url |-> "", resp |-> NoResponse,
     exc |-> NoException, entity |-> NoEntity, read |-> Raised("none")]

\* What each operation makes of a response.
ResultOf(name, url, r) ==
    IF name \in {"submit", "get_submit"} THEN SubmitResult(url, r)
    ELSE IF name = "get_submits" THEN ItemResult(url, r)
    ELSE TaskResult(url, r)

\* One operation: the transport fails (TransportError escapes), or a
\* response arrives and the operation turns it into its result.
EntCall(name, url) ==
    /\ ent.pc = "idle"
    /\ \/ ent' = [ent EXCEPT !.pc = "raised", !.name = name, !.url = url,
                              !.exc = TransportError]
       \/ \E r \in EntResponses :
             LET o == ResultOf(name, url, r) IN
             ent' = [pc |-> IF o.exc.type = "none" THEN "returned" ELSE "raised",
                     name |-> name, url |-> url, resp |-> r, exc |-> o.exc,
                     entity |-> o.entity, read |-> Raised("none")]
    /\ UNCHANGED <<srvItems, itVars, httpVars, langVars, actVars, dec, twin>>

Submit == EntCall("submit", "/api/submits/")

GetSubmit == EntCall("get_submit", "/api/submits/id/")

\* One item of get_submits, taken from the iterator.
GetSubmitsItem == EntCall("get_submits", "/api/submits/")

GetTask == EntCall("get_task", "/api/tasks/ns/t/")

UpdateTask == EntCall("update_task", "/api/tasks/ns/t/")

CreateTask == EntCall("create_task", "/api/tasks/ns/")

\* The caller reads the public URL of the entity it was given.
ReadPublicUrl ==
    /\ ent.pc = "returned"
    /\ ent' = [ent EXCEPT !.pc = "read",
                          !.read = IF ent.entity.cls = "Submit"
                                     THEN PublicProtocolUrl(ent.entity)
                                     ELSE PublicSubmitUrl(ent.entity)]
    /\ UNCHANGED <<srvItems, itVars, httpVars, langVars, actVars, dec, twin>>

\* ------------------------------------------------ enum decoding (types.py)
\* A string is the sequence of its characters.
LowerAlpha ==
    <<"a", "b", "c", "d", "e", "f", "g", "h", "i", "j", "k", "l", "m",
      "n", "o", "p", "q", "r", "s", "t", "u", "v", "w", "x", "y", "z">>

UpperAlpha ==
    <<"A", "B", "C", "D", "E", "F", "G", "H", "I", "J", "K", "L", "M",
      "N", "O", "P", "Q", "R", "S", "T", "U", "V", "W", "X", "Y", "Z">>

\* str.upper() on one character and on a string.
UpperChar(c) ==
    IF \E i \in DOMAIN LowerAlpha : LowerAlpha[i] = c
      THEN UpperAlpha[CHOOSE i \in DOMAIN LowerAlpha : LowerAlpha[i] = c]
      ELSE c

Upper(str) == [i \in DOMAIN str |-> UpperChar(str[i])]

\* The member names of Verdict (types.py:153-224).
VerdictNames ==
    {<<"O", "K">>, <<"W", "A">>, <<"T", "L", "E">>,
     <<"E", "X", "C">>, <<"P", "R", "V">>, <<"I", "G", "N">>,
     <<"M", "E", "M">>, <<"C", "E", "X">>, <<"S", "E", "X">>, <<"P", "O", "K">>,
     <<"C", "O", "N", "N", "E", "R", "R">>}

\* The member names of TestingStatus (types.py:74-111).
UNKNOWN == <<"U", "N", "K", "N", "O", "W", "N">>

TestingStatusNames ==
    {<<"W", "A", "I", "T", "I", "N", "G">>, <<"D", "O", "N", "E">>,
     <<"P", "U", "L", "L", "I", "N", "G", "_", "I", "M", "A", "G", "E">>,
     <<"M", "E", "A", "S", "U", "R", "I", "N", "G", "_", "T", "I", "M", "E", "L", "I", "M", "I", "T">>,
     <<"T", "E", "S", "T", "I", "N", "G">>, UNKNOWN}

MemberNames(cls) == IF cls = "Verdict" THEN VerdictNames ELSE TestingStatusNames

\* The most letters of a name written in lower case in a raw string, other
\* than in the all-lower-case spelling.
MaxLower == 2

LowerChar(c) ==
    IF \E i \in DOMAIN UpperAlpha : UpperAlpha[i] = c
      THEN LowerAlpha[CHOOSE i \in DOMAIN UpperAlpha : UpperAlpha[i] = c]
      ELSE c

\* The sets of at most k positions of a string of length n.
RECURSIVE Positions(_, _)
Positions(n, k) ==
    IF k = 0 THEN {{}}
    ELSE Positions(n, k - 1) \cup {P \cup {i} : P \in Positions(n, k - 1), i \in 1..n}

\* The string with the letters at positions P in lower case.
Spell(str, P) == [i \in DOMAIN str |-> IF i \in P THEN LowerChar(str[i]) ELSE str[i]]

\* Spellings of a member name: as the server sends it (lower case for a
\* testing status, upper case for a verdict) and with some letters changed.
Spellings(name) ==
    {Spell(name, P) : P \in Positions(Len(name), MaxLower)}
    \cup {Spell(name, DOMAIN name)}

\* Strings that are no spelling of a member name: a name cut short, with a
\* blank or a letter more, with another separator, a status the client
\* does not know, the empty string.
OtherStrings(name) ==
    {SubSeq(name, 1, Len(name) - 1), name \o <<" ">>, <<" ">> \o name,
     name \o <<name[1]>>, Spell(name, DOMAIN name) \o <<"\n">>,
     [i \in DOMAIN name |-> IF name[i] = "_" THEN "-" ELSE IF i = 1 THEN "Q" ELSE name[i]],
     <<"q", "u", "e", "u", "e", "d">>, <<>>}

\* The raw values handed to an enum class: strings, values that are not
\* strings, the value tuple of a member, a member itself.
Raw(type, cls, chars) == [type |-> type, cls |-> cls, chars |-> chars]

EnumClasses == {"Verdict", "TestingStatus"}

RawValues ==
    {Raw("str", "", str) :
        str \in UNION {Spellings(n) \cup OtherStrings(n) :
                          n \in VerdictNames \cup TestingStatusNames}}
    \cup {Raw(t, "", <<>>) : t \in {"int", "NoneType", "list", "dict"}}
    \cup {Raw(t, cls, n) : t \in {"tuple", "member"}, cls \in EnumClasses, n \in {UNKNOWN, <<"O", "K">>}}

\* What decoding gives: a member, or ValueError.
Member(cls, name) == [kind |-> "member", cls |-> cls, name |-> name]

ValueError == [kind |-> "ValueError", cls |-> "", name |-> <<>>]

\* next((m for m in cls if m._name_.upper() == value), default)
MatchName(cls, value, default) ==
    IF \E m \in MemberNames(cls) : Upper(m) = value
      THEN Member(cls, CHOOSE m \in MemberNames(cls) : Upper(m) = value)
      ELSE default

\* A lookup that compares the raw string as it is.
VerdictMissingExactCase(value) ==
    IF value.type = "str" THEN MatchName("Verdict", value.chars, ValueError)
    ELSE ValueError

\* Verdict._missing_ (types.py:228-232); a result of None makes the enum
\* machinery raise ValueError.
VerdictMissing(value) ==
    IF value.type = "str" THEN MatchName("Verdict", Upper(value.chars), ValueError)
    ELSE ValueError

\* A lookup without the UNKNOWN default.
TestingStatusMissingNoDefault(value) ==
    IF value.type = "str"
      THEN MatchName("TestingStatus", Upper(value.chars), ValueError)
      ELSE ValueError

\* TestingStatus._missing_ (types.py:113-119).
TestingStatusMissing(value) ==
    IF value.type = "str"
      THEN MatchName("TestingStatus", Upper(value.chars), Member("TestingStatus", UNKNOWN))
      ELSE Member("TestingStatus", UNKNOWN)

\* The _missing_ hook of each class.
Missing(cls, value) ==
    IF cls = "Verdict" THEN VerdictMissing(value) ELSE TestingStatusMissing(value)

\* cls(value): a member of the class is returned as it is, the value tuple
\* of a member gives that member, everything else goes to _missing_.
EnumCall(cls, value) ==
    IF value.type \in {"tuple", "member"} /\ value.cls = cls /\ value.chars \in MemberNames(cls)
      THEN Member(cls, value.chars)
      ELSE Missing(cls, value)

\* Nothing has been decoded.
NoDec == [pc |-> "idle", cls |-> "", raw |-> Raw("", "", <<>>), out |-> ValueError]

\* Verdict(raw)
DecodeVerdict ==
    /\ dec.pc = "idle"
    /\ \E raw \in RawValues :
          dec' = [pc |-> "done", cls |-> "Verdict", raw |-> raw,
                  out |-> EnumCall("Verdict", raw)]
    /\ UNCHANGED <<srvItems, itVars, httpVars, langVars, actVars, ent, twin>>

\* TestingStatus(raw)
DecodeTestingStatus ==
    /\ dec.pc = "idle"
    /\ \E raw \in RawValues :
          dec' = [pc |-> "done", cls |-> "TestingStatus", raw |-> raw,
                  out |-> EnumCall("TestingStatus", raw)]
    /\ UNCHANGED <<srvItems, itVars, httpVars, langVars, actVars, ent, twin>>

\* --------------------------------------------- DeployAction.process_task
\* The exceptions get_task, create_task and update_task can end with, and
\* NoException: the transport fails, or the response goes through
\* TaskResult.
TaskCallOutcomes(url) ==
    {[resp |-> NoResponse, exc |-> TransportError]}
    \cup {[resp |-> r, exc |-> TaskResult(url, r).exc] : r \in EntResponses}

\* How set_task_languages can end: it returns, or one of its calls raises.
SetLanguagesOutcomes == {NoException} \cup {o.exc : o \in Outcomes("add")}

\* Any failure of get_task is taken for a missing task.
AfterGetTaskAnyFailure(exc) == IF exc = NoException THEN "languages" ELSE "create"

\* deploy.py:260-269: a Task was returned (old_task is truthy), or
\* NotFoundError was caught (old_task = None, create_task follows), or
\* another exception leaves process_task and reaches TasksAction.run
\* (actions/__init__.py:108-112), which exits with status 1.
AfterGetTask(exc) ==
    IF exc = NoException THEN "languages"
    ELSE IF exc.type = "NotFoundError" THEN "create"
    ELSE "exit1"

\* After any other client call: go on, or leave with the exception.
AfterCall(exc, nextpc) == IF exc = NoException THEN nextpc ELSE "exit1"

NoDep ==
    [pc |-> "idle", has_languages |-> FALSE, resp |-> NoResponse,
     get |-> NoException, calls |-> <<>>, exc |-> NoException]

\* process_task, lines 246-257: the configuration is loaded and the task
\* built; either may fail, and process_task then calls exit(1).
\* has_languages: whether a language of the configuration passes the test
\* of line 276.
DeployBegin ==
    /\ dep.pc = "idle"
    /\ \E built \in BOOLEAN, langs \in BOOLEAN :
          dep' = [dep EXCEPT !.pc = IF built THEN "get" ELSE "exit1",
                             !.has_languages = langs]
    /\ UNCHANGED <<srvItems, itVars, httpVars, langVars, extVars, duo, cln>>

\* lines 260-264
DeployGetTask ==
    /\ dep.pc = "get"
    /\ \E o \in TaskCallOutcomes("/api/tasks/ns/t/") :
          dep' = [dep EXCEPT !.pc = AfterGetTask(o.exc), !.resp = o.resp,
                             !.get = o.exc, !.calls = Append(@, "get_task"),
                             !.exc = IF AfterGetTask(o.exc) = "exit1"
                                       THEN o.exc ELSE NoException]
    /\ UNCHANGED <<srvItems, itVars, httpVars, langVars, extVars, duo, cln>>

\* One client call of lines 269-310 at position pc.
DeployCall(pc, name, outcomes, nextpc) ==
    /\ dep.pc = pc
    /\ \E exc \in outcomes :
          dep' = [dep EXCEPT !.pc = AfterCall(exc, nextpc),
                             !.calls = Append(@, name), !.exc = exc]
    /\ UNCHANGED <<srvItems, itVars, httpVars, langVars, extVars, duo, cln>>

\* lines 266-269
DeployCreateTask ==
    DeployCall("create", "create_task",
               {o.exc : o \in TaskCallOutcomes("/api/tasks/ns/")}, "languages")

\* lines 271-293: without a valid language process_task calls exit(1).
DeployLanguages ==
    /\ dep.pc = "languages"
    /\ dep' = [dep EXCEPT !.pc = IF dep.has_languages THEN "set" ELSE "exit1"]
    /\ UNCHANGED <<srvItems, itVars, httpVars, langVars, extVars, duo, cln>>

\* lines 301-305
DeploySetTaskLanguages ==
    DeployCall("set", "set_task_languages", SetLanguagesOutcomes, "update")

\* line 310
DeployUpdateTask ==
    DeployCall("update", "update_task",
               {o.exc : o \in TaskCallOutcomes("/api/tasks/ns/t/")}, "upload")

\* lines 312-335: the data upload, rejudge and submits, taken together.
DeployUpload ==
    DeployCall("upload", "upload_task_data", {NoException, TransportError}, "done")
\* ------------------ two clients, set_task_languages on the same task
\* The longest desired list either client passes.
MaxDuoLen == 1

\* The desired lists of the two clients: distinct ids, one setting.
DuoLists ==
    {d \in UNION {[1..n -> [language_id : LangIds, val : {"v1"}]] : n \in 0..MaxDuoLen} :
        Cardinality(IdsOf(d)) = Len(d)}

Clients == {1, 2}

NoDuo ==
    [pc |-> "idle",
     c |-> [k \in Clients |-> [pc |-> "idle", desired |-> <<>>, current |-> <<>>, i |-> 0]]]

\* Both clients call set_task_languages; each has its own session and
\* shares nothing with the other but the server.
DuoBegin ==
    /\ duo.pc = "idle"
    /\ \E d1 \in DuoLists, d2 \in DuoLists :
          duo' = [pc |-> "run",
                  c |-> [k \in Clients |->
                           [pc |-> "get", desired |-> IF k = 1 THEN d1 ELSE d2,
                            current |-> <<>>, i |-> 0]]]
    /\ UNCHANGED <<srvItems, itVars, httpVars, langVars, extVars, dep, cln>>

\* Client k at line 559: its listing of the task's languages arrives.
DuoGet ==
    \E k \in Clients :
       /\ duo.c[k].pc = "get"
       /\ LET cur == GetTaskLanguages(srvLangs)
              pos == Position("put", 1, duo.c[k].desired, cur)
          IN  duo' = [duo EXCEPT !.c[k].current = cur, !.c[k].pc = pos.pc,
                                 !.c[k].i = pos.i]
       /\ UNCHANGED <<srvItems, itVars, httpVars, langVars, extVars, dep, cln>>

\* One call of client k's loops, answered with success: the server
\* applies it.
DuoCall(k, op, id, val, nextpc) ==
    LET pos == Position(nextpc, duo.c[k].i + 1, duo.c[k].desired, duo.c[k].current)
    IN  /\ srvLangs' = Apply(srvLangs, op, id, val)
        /\ duo' = [duo EXCEPT !.c[k].pc = pos.pc, !.c[k].i = pos.i]
        /\ UNCHANGED <<srvItems, itVars, httpVars, extVars, dep, cln, srvLangs0,
                       task_languages, current_languages, lang_pc, lang_i,
                       lang_calls, lang_exc, lang_round>>

\* Client k at lines 563-567.
DuoPut ==
    \E k \in Clients :
       /\ duo.c[k].pc = "put"
       /\ LET lang == duo.c[k].desired[duo.c[k].i] IN
          DuoCall(k, PutOp(lang, IdsOf(duo.c[k].current)), lang.language_id,
                  lang.val, "put")

\* Client k at lines 571-573.
DuoDel ==
    \E k \in Clients :
       /\ duo.c[k].pc = "del"
       /\ DuoCall(k, "delete", duo.c[k].current[duo.c[k].i].language_id, "", "del")
\* ---------------------------------------------------- CleanupAction.run
\* The server's listing without the task x.
Without(tasks, x) == LET Keep(t) == t # x IN SelectSeq(tasks, Keep)

\* A loop that takes its tasks from the iterator as they come.
LoopMayRunUnlisted(c) == c.yielded # <<>>

\* cleanup.py:16: the for loop runs over list(...), which exists once the
\* iterator is consumed to its end.
LoopMayRun(c) == Over(c)

NoCln ==
    [pc |-> "idle", tasks0 |-> <<>>, prefixed |-> {}, listing |-> Consumer(IteratorInit(0)),
     i |-> 0, deletes |-> <<>>, fetches_at_delete |-> -1, exc |-> NoException]

\* run() is called: get_tasks(namespace, query=TASK_PREFIX) builds the
\* iterator (offset 0).  `prefixed` holds the tasks whose name starts with
\* TASK_PREFIX.
CleanupBegin ==
    /\ cln.pc = "idle"
    /\ \E p \in 1..MaxP, pre \in SUBSET Range(srvItems) :
          /\ batch_size' = p
          /\ start' = 0
          /\ cln' = [cln EXCEPT !.pc = "len", !.tasks0 = srvItems, !.prefixed = pre,
                                 !.listing = Consumer(IteratorInit(0)), !.i = 1]
    /\ UNCHANGED <<srvItems, endpoint, it_offset, it_data_offset, it_count,
                   it_data, lastOp, result, lenValue, firstCount, yielded,
                   fetched, nCalls, stops, httpVars, langVars, extVars, dep, duo>>

\* list() asks the size of the iterator before it consumes it.
CleanupLen ==
    /\ cln.pc = "len"
    /\ cln' = [cln EXCEPT !.pc = "run", !.listing.it = LenOf(@)]
    /\ UNCHANGED <<srvItems, itVars, httpVars, langVars, extVars, dep, duo>>

\* list() takes one more item from the iterator.
CleanupList ==
    /\ cln.pc = "run"
    /\ ~Over(cln.listing)
    /\ cln' = [cln EXCEPT !.listing = Consume(@),
                           !.pc = IF Consume(cln.listing).result.kind = "IndexError"
                                    THEN "failed" ELSE "run"]
    /\ UNCHANGED <<srvItems, itVars, httpVars, langVars, extVars, dep, duo>>

\* One pass of the for loop, lines 16-26: a task whose name does not start
\* with the prefix is skipped, the others are deleted; an exception of
\* delete_task ends run().
CleanupLoop ==
    /\ cln.pc = "run"
    /\ LoopMayRun(cln.listing)
    /\ cln.i <= Len(cln.listing.yielded)
    /\ LET task == cln.listing.yielded[cln.i] IN
       IF task \notin cln.prefixed
         THEN /\ cln' = [cln EXCEPT !.i = @ + 1]
              /\ UNCHANGED srvItems
         ELSE \E o \in Outcomes("delete") :
                 /\ cln' = [cln EXCEPT
                              !.i = @ + 1,
                              !.deletes = Append(@, task),
                              !.fetches_at_delete =
                                  IF @ = -1 THEN Len(cln.listing.it.fetched) ELSE @,
                              !.exc = o.exc,
                              !.pc = IF o.exc = NoException THEN "run" ELSE "failed"]
                 /\ srvItems' = IF o.applied THEN Without(srvItems, task) ELSE srvItems
    /\ UNCHANGED <<itVars, httpVars, langVars, extVars, dep, duo>>

\* The loop has gone through the list: run() returns.
CleanupEnd ==
    /\ cln.pc = "run"
    /\ Over(cln.listing)
    /\ cln.i > Len(cln.listing.yielded)
    /\ cln' = [cln EXCEPT !.pc = "done"]
    /\ UNCHANGED <<srvItems, itVars, httpVars, langVars, extVars, dep, duo>>

Init ==
    /\ srvItems \in {Items(n) : n \in 0..MaxN}
    /\ endpoint = ""
    /\ batch_size = 0
    /\ start = 0
    /\ it_offset = 0
    /\ it_data_offset = 0
    /\ it_count = -1
    /\ it_data = <<>>
    /\ lastOp = "none"
    /\ result = NoResult
    /\ lenValue = -1
    /\ firstCount = -1
    /\ yielded = <<>>
    /\ fetched = <<>>
    /\ nCalls = 0
    /\ stops = 0
    /\ http_pc = "idle"
    /\ http_req = [method |-> "", url |-> ""]
    /\ http_resp = NoResponse
    /\ http_exc = NoException
    /\ srvLangs \in LangTables
    /\ srvLangs0 = srvLangs
    /\ task_languages = <<>>
    /\ current_languages = <<>>
    /\ lang_pc = "idle"
    /\ lang_i = 0
    /\ lang_calls = <<>>
    /\ lang_exc = NoException
    /\ lang_round = 0
    /\ ent = NoEnt
    /\ dec = NoDec
    /\ twin = NoTwin
    /\ dep = NoDep
    /\ duo = NoDuo
    /\ cln = NoCln

\* The iterator against a server whose result set does not change.
InitIter == Init /\ srvLangs = [l \in LangIds |-> NoLang]

NextIter == GetSubmits \/ GetTasks \/ IterCall \/ LenCall \/ NextCall

Spec == InitIter /\ [][NextIter]_vars

\* The iterator against a server whose result set changes under it.
NextResize == NextIter \/ ServerResize

SpecResize == InitIter /\ [][NextResize]_vars

\* One HTTP exchange.
InitHttp == Init /\ srvItems = <<>> /\ srvLangs = [l \in LangIds |-> NoLang]

NextHttp == Get \/ Post \/ Delete

SpecHttp == InitHttp /\ [][NextHttp]_vars

\* One call of set_task_languages, no other writer.
InitLang == Init /\ srvItems = <<>>

NextLang == SetTaskLanguages \/ GetStep \/ PutStep \/ DelStep

SpecLang == InitLang /\ [][NextLang]_vars

\* A call of set_task_languages that may be repeated once it returned.
NextLangTwice == NextLang \/ SetTaskLanguagesAgain

SpecLangTwice == InitLang /\ [][NextLangTwice]_vars

\* One operation that returns a Submit or a Task, and the caller reading
\* the entity's public URL.
NextEnt ==
    \/ Submit \/ GetSubmit \/ GetSubmitsItem
    \/ GetTask \/ UpdateTask \/ CreateTask
    \/ ReadPublicUrl

SpecEnt == InitHttp /\ [][NextEnt]_vars

\* One raw value decoded by an enum class.
NextDecode == DecodeVerdict \/ DecodeTestingStatus

SpecDecode == InitHttp /\ [][NextDecode]_vars

\* DeployAction.process_task for one task.
NextDeploy ==
    \/ DeployBegin \/ DeployGetTask \/ DeployCreateTask \/ DeployLanguages
    \/ DeploySetTaskLanguages \/ DeployUpdateTask \/ DeployUpload

SpecDeploy == InitHttp /\ [][NextDeploy]_vars

\* CleanupAction.run.
NextCleanup == CleanupBegin \/ CleanupLen \/ CleanupList \/ CleanupLoop \/ CleanupEnd

SpecCleanup == InitIter /\ [][NextCleanup]_vars

\* Two clients setting the languages of one task at the same time.
NextDuo == DuoBegin \/ DuoGet \/ DuoPut \/ DuoDel

SpecDuo == InitLang /\ [][NextDuo]_vars

\* Two iterators over the same listing, consumed side by side.
NextTwin == TwinConstruct \/ TwinLen \/ TwinNext

SpecTwin == InitIter /\ [][NextTwin]_vars

\* ================================================================ claims
\* The last call was an advance that returned no row: the consumption of
\* the sequence is over.
Ended == lastOp = "next" /\ result.kind \in {"StopIteration", "IndexError"}

IsPrefix(s, t) == Len(s) <= Len(t) /\ s = SubSeq(t, 1, Len(s))

\* C1: against a server that serves its N items in pages of P, consuming the
\* whole sequence from offset 0 ends with the end-of-iteration signal after
\* exactly the N items have been yielded, each once, in server order; until
\* then the items yielded are the first ones of the server's sequence.
C1_YieldsAllInOrder ==
    start = 0 =>
       /\ IsPrefix(yielded, srvItems)
       /\ Ended => result.kind = "StopIteration" /\ yielded = srvItems

\* C3: an advance signals StopIteration exactly when the running offset has
\* reached the learned count, and yields a row before that, for every start
\* offset and page size, also when the advance itself learns the count.
C3_StopsAtCount ==
    lastOp = "next" =>
       \/ result.kind = "row" /\ it_offset <= it_count
       \/ result.kind = "StopIteration" /\ it_offset >= it_count

\* C8 as stated: once the count has been learned, the size query returns
\* that same value for the rest of the iterator's life.
C8_LenNeverChanges == lenValue # -1 => lenValue = firstCount

\* C8 as amended: once the count is known the size query fetches nothing
\* and returns the stored count; the stored count changes only in an
\* advance that fetches a page, and is then the count that fetch reported.
C8_LenFollowsLastFetch ==
    /\ [][(lastOp' = "len" /\ nCalls' # nCalls) =>
             /\ lenValue' = it_count'
             /\ it_count # -1 => fetched' = fetched /\ it_count' = it_count]_vars
    /\ [][fetched' # fetched =>
             /\ lastOp' \in {"len", "next"}
             /\ it_count' = Len(srvItems)]_vars
    /\ [][(it_count # -1 /\ it_count' # it_count) =>
             lastOp' = "next" /\ fetched' # fetched]_vars

\* A size query answers with another count than the one learned first.
C8_Witness == lastOp = "len" /\ firstCount # -1 /\ lenValue # firstCount

\* C9 as stated: a full consumption from offset 0 has made ceil(N/P) + 1
\* page fetches.
C9_FetchesPlusOne ==
    (start = 0 /\ Ended) =>
       Len(fetched) = CeilDiv(Len(srvItems), batch_size) + 1

\* C9 as amended: a full consumption from offset 0 has made
\* max(1, ceil(N/P)) page fetches, whether or not the size was queried, and
\* no more than that at any time.
C9_FetchesCeil ==
    (endpoint # "" /\ start = 0) =>
       /\ Len(fetched) <= Max(1, CeilDiv(Len(srvItems), batch_size))
       /\ Ended => Len(fetched) = Max(1, CeilDiv(Len(srvItems), batch_size))

\* Three items in pages of two, the size queried, consumed to the end.
C9_Witness ==
    /\ start = 0 /\ Ended /\ lenValue = 3 /\ batch_size = 2
    /\ Len(yielded) = 3 /\ Len(fetched) = 2

\* C10: building the iterator fetches nothing, and nothing is fetched
\* while neither the size is queried nor advance is called; every fetch is
\* made by a size query or an advance, and one has been made before the
\* first row is yielded.
C10_LazyFirstFetch ==
    /\ [](nCalls = 0 => fetched = <<>>)
    /\ [](yielded # <<>> => fetched # <<>>)
    /\ [][fetched' # fetched =>
             nCalls' = nCalls + 1 /\ lastOp' \in {"len", "next"}]_vars

\* The iterator is built and iter() was called on it; no row was consumed
\* and nothing was fetched.
C10_Witness == endpoint = "/api/tasks/" /\ lastOp = "iter" /\ fetched = <<>>

\* ---- set_task_languages
DistinctIds(list) == Cardinality(IdsOf(list)) = Len(list)

\* How many calls of operation op for language id have been issued.
Issued(op, id) ==
    Cardinality({k \in DOMAIN lang_calls :
                    lang_calls[k].op = op /\ lang_calls[k].id = id})

\* How many the claim allows, from the list stored when the call began.
Allowed(op, id) ==
    LET cur == StoredIds(srvLangs0)
        des == IdsOf(task_languages)
    IN  IF \/ op = "add" /\ id \in des \ cur
           \/ op = "update" /\ id \in des \cap cur
           \/ op = "delete" /\ id \in cur \ des
          THEN 1 ELSE 0

MutatingOps == {"add", "update", "delete"}

\* C2: for a desired list of distinct ids, a completed set_task_languages
\* has issued exactly one add per desired id not stored, one update per
\* desired id stored (equal entry or not) and one delete per stored id not
\* desired; the adds and updates carry the desired entry; no other mutating
\* call is issued at any time.
C2_ExactCalls ==
    (lang_pc # "idle" /\ DistinctIds(task_languages)) =>
       /\ \A k \in DOMAIN lang_calls :
             /\ lang_calls[k].op \in MutatingOps \cup {"get"}
             /\ lang_calls[k].op = "get" => k = 1
             /\ lang_calls[k].op \in {"add", "update"} =>
                   [language_id |-> lang_calls[k].id, val |-> lang_calls[k].val]
                      \in Range(task_languages)
       /\ \A op \in MutatingOps, id \in LangIds : Issued(op, id) <= Allowed(op, id)
       /\ lang_pc = "done" =>
             \A op \in MutatingOps, id \in LangIds : Issued(op, id) = Allowed(op, id)

\* A completed call that added, deleted, and updated a language whose
\* desired entry equals the stored one.
C2_Witness ==
    /\ lang_pc = "done" /\ DistinctIds(task_languages)
    /\ \E k \in DOMAIN lang_calls :
          lang_calls[k].op = "update" /\ lang_calls[k].val = srvLangs0[lang_calls[k].id]
    /\ \E k \in DOMAIN lang_calls : lang_calls[k].op = "add"
    /\ \E k \in DOMAIN lang_calls : lang_calls[k].op = "delete"

\* C11: set_task_languages with an empty desired list never issues an add
\* or an update; it fails only with the exception one of its calls raised;
\* and when it has completed it has issued exactly one delete for every
\* language that was stored, and raised nothing.
C11_EmptyDeletesAll ==
    (lang_pc # "idle" /\ task_languages = <<>>) =>
       /\ \A k \in DOMAIN lang_calls : lang_calls[k].op \in {"get", "delete"}
       /\ lang_pc = "failed" =>
             /\ lang_calls # <<>>
             /\ lang_calls[Len(lang_calls)].exc # NoException
             /\ lang_exc = lang_calls[Len(lang_calls)].exc
       /\ lang_pc # "failed" =>
             /\ lang_exc = NoException
             /\ \A k \in DOMAIN lang_calls : lang_calls[k].exc = NoException
       /\ lang_pc = "done" =>
             \A id \in LangIds :
                Issued("delete", id) = IF id \in StoredIds(srvLangs0) THEN 1 ELSE 0

\* A completed call with an empty desired list on a task that stored two
\* languages or more: it deleted them all.
C11_Witness ==
    /\ lang_pc = "done" /\ task_languages = <<>>
    /\ Cardinality(StoredIds(srvLangs0)) >= 2
    /\ StoredIds(srvLangs) = {}
    /\ Len(lang_calls) = 1 + Cardinality(StoredIds(srvLangs0))

\* C4: every add and update is issued before the first delete: after a
\* delete only deletes follow.
C4_PutsBeforeDeletes ==
    \A j, k \in DOMAIN lang_calls :
       (j < k /\ lang_calls[j].op = "delete") => lang_calls[k].op = "delete"

\* A completed call that issued an add, an update and a delete.
C4_Witness ==
    /\ lang_pc = "done"
    /\ \A op \in MutatingOps : \E k \in DOMAIN lang_calls : lang_calls[k].op = op

\* The server's table after the first n calls of the log, each applied
\* when it succeeded.
RECURSIVE Replay(_)
Replay(n) ==
    IF n = 0 THEN srvLangs0
    ELSE IF lang_calls[n].exc = NoException
      THEN Apply(Replay(n - 1), lang_calls[n].op, lang_calls[n].id, lang_calls[n].val)
      ELSE Replay(n - 1)

\* C5: a call that fails is the last call set_task_languages makes: its
\* exception is the caller's, it is not issued again and nothing follows
\* it; the server keeps what the calls before it did (with or without the
\* effect of the failed request itself).
C5_FailurePropagates ==
    /\ [](\A k \in DOMAIN lang_calls :
             lang_calls[k].exc # NoException =>
                /\ k = Len(lang_calls)
                /\ lang_pc = "failed"
                /\ lang_exc = lang_calls[k].exc)
    /\ [](lang_pc = "failed" =>
             LET n == Len(lang_calls) IN
             /\ n >= 1 /\ lang_calls[n].exc # NoException
             /\ srvLangs \in
                  {Replay(n - 1),
                   Apply(Replay(n - 1), lang_calls[n].op, lang_calls[n].id,
                         lang_calls[n].val)})
    /\ [][lang_pc = "failed" => UNCHANGED <<lang_calls, srvLangs, lang_pc>>]_vars

\* A delete failed after an add and an update went through: the server is
\* left changed.
C5_Witness ==
    /\ lang_pc = "failed" /\ Len(lang_calls) = 4
    /\ lang_calls[4].op = "delete"
    /\ srvLangs # srvLangs0
    /\ srvLangs = Replay(3)

KnownDetails == {"Not Found", "filename: Could not detect language."}

\* C7: an exchange that fails without a response, or with a non-2xx
\* response that matches no known detail string, gives the caller
\* JudgeConnectionError.
C7_UnclassifiedIsConnectionError ==
    (/\ http_pc = "raised"
     /\ \/ http_resp = NoResponse
        \/ /\ ~(http_resp.status \in 200..299)
           /\ ~(http_resp.body.kind = "detail_str"
                  /\ http_resp.body.detail \in KnownDetails)) =>
       http_exc.type = "JudgeConnectionError"

\* Whether the argument an exception was constructed with contains the
\* path of the request.
CarriesPath(exc, url) == \E k \in DOMAIN exc.detail : exc.detail[k] = url

IsAdvance == lastOp' = "next" /\ nCalls' = nCalls + 1

\* C18: the running offset is the start offset plus the number of rows
\* yielded; an advance fetches only when the page cursor is at or past the
\* end of the current page, then makes one fetch, with the running offset
\* as argument; an advance that finds a row left in the current page makes
\* no fetch; an advance that finds the page used up and the end not
\* reached makes one.
C18_FetchOnlyWhenExhausted ==
    /\ [](endpoint # "" => it_offset = start + Len(yielded))
    /\ [][IsAdvance =>
             /\ fetched' # fetched =>
                   /\ it_data_offset >= Len(it_data)
                   /\ fetched' = Append(fetched, start + Len(yielded))
             /\ it_data_offset < Len(it_data) => fetched' = fetched
             /\ (it_data_offset >= Len(it_data) /\ ~ReachedEnd(it_offset, it_count)) =>
                   Len(fetched') = Len(fetched) + 1]_vars

\* Three rows in pages of two consumed by advances alone: the second row
\* was served from the first page, the third by a fetch at offset 2.
C18_Witness ==
    /\ start = 0 /\ batch_size = 2 /\ lenValue = -1 /\ lastOp = "next"
    /\ Len(yielded) = 3 /\ fetched = <<0, 2>>

\* C20: __iter__ returns the iterator itself and changes none of its
\* fields; the running offset never goes back; and once an advance has
\* raised StopIteration, every later advance raises StopIteration again,
\* fetches nothing and yields nothing, whatever the server holds by then.
C20_NotRestartable ==
    /\ [][(lastOp' = "iter" /\ nCalls' = nCalls + 1) =>
             /\ result'.kind = "self"
             /\ UNCHANGED <<it_offset, it_data_offset, it_count, it_data,
                            yielded, fetched>>]_vars
    /\ [][endpoint # "" => it_offset' >= it_offset]_vars
    /\ [][(stops > 0 /\ IsAdvance) =>
             /\ result'.kind = "StopIteration"
             /\ UNCHANGED <<it_offset, it_data_offset, it_count, it_data,
                            yielded, fetched>>]_vars

\* Rows were yielded, the end was signalled, the server then got a new row
\* and the size was asked once more: the next advance signalled the end
\* again.
C20_Witness ==
    /\ stops >= 2 /\ lastOp = "next" /\ yielded # <<>> /\ lenValue # -1
    /\ Len(srvItems) > it_count

\* C19: the iterator whose size was asked first and the one whose size was
\* never asked yield the same rows, and their consumptions end with the
\* same outcome.
C19_SameWithAndWithoutLen ==
    twin.pc = "run" =>
       /\ twin.sized.yielded = twin.plain.yielded
       /\ twin.sized.result = twin.plain.result

\* submit or get_submit got a response.
SubmitAnswered == ent.name \in {"submit", "get_submit"} /\ ent.resp # NoResponse

\* The operation failed with ProtocolCorruptedError carrying the message
\* and the raw text of the response.
FailedCorrupted ==
    /\ ent.pc = "raised"
    /\ ent.exc = ProtocolCorruptedError(ent.resp.body)
    /\ ent.exc.detail # <<>>

ExpectedUrl(e) ==
    IF e.cls = "Submit" THEN Str(<<judge_url, "/public/protocol/", e.key, "/">>)
    ELSE IF e.key = NoKey THEN NoneValue
    ELSE Str(<<judge_url, "/public/submit/", e.key, "/">>)

\* C15: every Submit and Task a client operation returns refers to the
\* client, and reading its public URL gives judge_url, the path and the
\* key (None for a Task without key).
C15_ReturnedEntitiesKnowClient ==
    /\ ent.pc \in {"returned", "read"} => ent.entity.client = "self"
    /\ ent.pc = "read" => ent.read = ExpectedUrl(ent.entity)

\* Two strings are equal up to letter case: the same length, and at every
\* position the same character or the same letter in the other case.
SameUpToCase(a, b) ==
    /\ Len(a) = Len(b)
    /\ \A i \in DOMAIN a :
          \/ a[i] = b[i]
          \/ a[i] # LowerChar(a[i]) /\ LowerChar(a[i]) = b[i]
          \/ b[i] # LowerChar(b[i]) /\ LowerChar(b[i]) = a[i]

\* C16: Verdict(string) is the member whose code equals the string up to
\* letter case, for each of the eleven codes, and raises ValueError for
\* every other string.
C16_VerdictDecoding ==
    (dec.pc = "done" /\ dec.cls = "Verdict" /\ dec.raw.type = "str") =>
       /\ \A n \in VerdictNames :
             SameUpToCase(dec.raw.chars, n) => dec.out = Member("Verdict", n)
       /\ (~\E n \in VerdictNames : SameUpToCase(dec.raw.chars, n)) =>
             dec.out = ValueError

\* Verdict("cOnNERR") is CONNERR.
C16_Witness ==
    /\ dec.pc = "done" /\ dec.cls = "Verdict"
    /\ dec.raw = Raw("str", "", <<"c", "O", "n", "N", "E", "R", "R">>)
    /\ dec.out = Member("Verdict", <<"C", "O", "N", "N", "E", "R", "R">>)

\* C17: TestingStatus(value) always returns a member: the status whose
\* name equals the string up to letter case, and UNKNOWN for every other
\* string and for every value that is no string and no status.
C17_TestingStatusNeverFails ==
    (dec.pc = "done" /\ dec.cls = "TestingStatus") =>
       /\ dec.out.kind = "member" /\ dec.out.cls = "TestingStatus"
       /\ dec.out.name \in TestingStatusNames
       /\ dec.raw.type = "str" =>
             /\ \A n \in TestingStatusNames :
                   SameUpToCase(dec.raw.chars, n) => dec.out.name = n
             /\ (~\E n \in TestingStatusNames : SameUpToCase(dec.raw.chars, n)) =>
                   dec.out.name = UNKNOWN
       /\ dec.raw.type \in {"int", "NoneType", "list", "dict"} => dec.out.name = UNKNOWN
       /\ (dec.raw.type \in {"tuple", "member"} /\ dec.raw.cls # "TestingStatus") =>
             dec.out.name = UNKNOWN

\* TestingStatus("queued"), a status the client does not know, is UNKNOWN.
C17_Witness ==
    /\ dec.pc = "done" /\ dec.cls = "TestingStatus"
    /\ dec.raw = Raw("str", "", <<"q", "u", "e", "u", "e", "d">>)
    /\ dec.out = Member("TestingStatus", UNKNOWN)

\* C21: while set_task_languages runs with a desired list that is not
\* empty, on a task that stored a language when the call began and that
\* nobody else writes, the server stores at least one language of the
\* task after every call the operation has made, however the call ends.
C21_NeverWithoutLanguage ==
    (lang_pc # "idle" /\ task_languages # <<>> /\ StoredIds(srvLangs0) # {}) =>
       StoredIds(srvLangs) # {}

\* The second loop is under way on a task none of whose stored languages
\* is desired: one was deleted, one is still to be deleted.
C21_Witness ==
    /\ lang_pc = "del" /\ task_languages # <<>>
    /\ StoredIds(srvLangs0) \cap IdsOf(task_languages) = {}
    /\ Cardinality(StoredIds(srvLangs0)) >= 2
    /\ \E k \in DOMAIN lang_calls :
          lang_calls[k].op = "delete" /\ lang_calls[k].exc = NoException

\* A step in which the operation issues an add_task_language call.
IssuesAdd ==
    /\ Len(lang_calls') = Len(lang_calls) + 1
    /\ lang_calls'[Len(lang_calls')].op = "add"

\* C25: for every desired list, also one that names a language id more
\* than once, set_task_languages issues at most one add per language id,
\* and no add for an id the server stores at the moment of the call.
C25_NoAddOfStoredId ==
    /\ [](\A id \in LangIds : Issued("add", id) <= 1)
    /\ [][IssuesAdd => lang_calls'[Len(lang_calls')].id \notin StoredIds(srvLangs)]_vars

\* The server stores exactly the desired languages, each as desired.
StoresDesired ==
    /\ StoredIds(srvLangs) = IdsOf(task_languages)
    /\ \A k \in DOMAIN task_languages :
          srvLangs[task_languages[k].language_id] = task_languages[k].val

\* C24: when set_task_languages has returned for a desired list of
\* distinct ids, the server stores exactly the desired ids, each with the
\* desired entry; a second call with the same list issues, besides the
\* listing, only updates, and the server's table stays as it was.
C24_ConvergesAndRepeats ==
    (lang_pc # "idle" /\ DistinctIds(task_languages)) =>
       /\ lang_pc = "done" => StoresDesired
       /\ lang_round = 2 =>
             /\ \A k \in DOMAIN lang_calls : lang_calls[k].op \in {"get", "update"}
             /\ srvLangs = srvLangs0
             /\ StoresDesired
             /\ lang_pc = "done" =>
                   \A id \in LangIds :
                      Issued("update", id) = IF id \in IdsOf(task_languages) THEN 1 ELSE 0

\* The second call has returned after updating two languages or more.
C24_Witness ==
    /\ lang_round = 2 /\ lang_pc = "done" /\ DistinctIds(task_languages)
    /\ Len(task_languages) >= 2
    /\ Len(lang_calls) = 1 + Len(task_languages)
    /\ StoresDesired

\* C23: for a start offset from 0 to N, the size __len__ reports before
\* anything is consumed is the number of items the consumption of the
\* same iterator has yielded when it is over.
C23_LenIsNumberYielded ==
    (twin.pc = "run" /\ Over(twin.sized) /\ start <= Len(srvItems)) =>
       twin.size = Len(twin.sized.yielded)

\* Whether process_task has called the client operation `name`.
Called(name) == \E k \in DOMAIN dep.calls : dep.calls[k] = name

Deleted == Range(cln.deletes)

\* C27: delete_task is first called when the whole listing, all pages,
\* has been obtained, and nothing is fetched afterwards; it is called for
\* listed tasks whose name starts with TASK_PREFIX only, for none of them
\* twice, and when run() returns it has been called for each of them.
C27_ListThenDeletePrefixed ==
    cln.pc # "idle" =>
       /\ cln.deletes # <<>> =>
             /\ Over(cln.listing)
             /\ cln.listing.yielded = cln.tasks0
             /\ Len(cln.listing.it.fetched) = cln.fetches_at_delete
       /\ Deleted \subseteq cln.prefixed \cap Range(cln.tasks0)
       /\ Cardinality(Deleted) = Len(cln.deletes)
       /\ cln.pc = "done" =>
             /\ Deleted = cln.prefixed \cap Range(cln.tasks0)
             /\ cln.exc = NoException
       /\ cln.pc = "failed" => cln.deletes # <<>> /\ cln.exc # NoException

\* Three tasks listed in two pages, two of them with the prefix: run()
\* returned after deleting those two and left the third.
C27_Witness ==
    /\ cln.pc = "done" /\ Len(cln.tasks0) = 3 /\ batch_size = 2
    /\ Len(cln.deletes) = 2 /\ Len(srvItems) = 1
    /\ srvItems[1] \notin cln.prefixed

\* C26: when the calls of both clients have returned, the server stores
\* the language ids of one client's desired list or of the other's.
C26_OneOfTheTwoWins ==
    (duo.pc = "run" /\ \A k \in Clients : duo.c[k].pc = "done") =>
       \E k \in Clients : StoredIds(srvLangs) = IdsOf(duo.c[k].desired)

====
